---- MODULE Spec2Model ----
(***************************************************************************)
(* Model of util/uint128.go: the Uint128 type, a *big.Int restricted to    *)
(* [0, 2^128 - 1], with its constructors, its fixed-size byte codec, its   *)
(* arithmetic and DeepCopy.                                                *)
(*                                                                         *)
(* A big.Int is modelled as a sign and a magnitude; the magnitude is the   *)
(* sequence of its base-256 digits, least significant first and without    *)
(* high zero digits (math/big keeps a little-endian slice of machine words *)
(* normalised the same way).  Values around 2^128 are therefore exact.     *)
(*                                                                         *)
(* The heap holds big.Int objects: the caller-owned ones that are handed   *)
(* to NewUint128FromBigInt, and the ones the package allocates.  A Uint128 *)
(* instance is a pointer to one heap cell, as in `struct { *big.Int }`.    *)
(*                                                                         *)
(* Validate, String and Cmp as calls of their own neither return nor       *)
(* change an instance and are not actions; Validate is the operator the    *)
(* constructors and the arithmetic apply.                                  *)
(***************************************************************************)
EXTENDS Integers, Sequences, FiniteSets, TLC

\* ------------------------------------------------------------------------
\* Program constants
\* ------------------------------------------------------------------------

Uint128Bytes == 16

Uint128Bits == 128

ErrNil == "nil"

ErrUint128Overflow == "uint128: overflow"

ErrUint128Underflow == "uint128: underflow"

ErrUint128InvalidBytesSize == "uint128: invalid bytes"

ErrUint128InvalidString == "uint128: invalid string to uint128"

\* outcome of a call that never returns: a run-time panic
Panic == "panic: division by zero"

\* ------------------------------------------------------------------------
\* math/big: magnitudes (type nat), base 256, little-endian, normalised
\* ------------------------------------------------------------------------

Byte == 0..255

ByteBase == 2^8

Reverse(s) == [i \in 1..Len(s) |-> s[Len(s) + 1 - i]]

\* The digit loops of the package are written as recursions that halve the
\* range of digits: the first half is computed, then the second half from the
\* carry (remainder, accumulator) the first half leaves.  The test `x = x`
\* makes the first half be evaluated before the second is entered.

Max2(m, n) == IF m >= n THEN m ELSE n

\* the highest index in lo..hi of a non-zero digit of s, 0 if there is none
RECURSIVE natTop(_, _, _)
natTop(s, lo, hi) ==
    IF lo = hi THEN (IF s[lo] # 0 THEN lo ELSE 0)
    ELSE LET mid == (lo + hi) \div 2
             h   == natTop(s, mid + 1, hi)
         IN  IF h # 0 THEN h ELSE natTop(s, lo, mid)

\* without the high zero digits
natNorm(s) == IF s = <<>> THEN s ELSE SubSeq(s, 1, natTop(s, 1, Len(s)))

natDigit(s, i) == IF i <= Len(s) THEN s[i] ELSE 0

\* the digits hi, hi-1, .., lo of a against those of b: -1, 0, +1
RECURSIVE natCmpRange(_, _, _, _)
natCmpRange(a, b, lo, hi) ==
    IF lo = hi THEN (IF a[lo] < b[lo] THEN -1 ELSE IF a[lo] > b[lo] THEN 1 ELSE 0)
    ELSE LET mid == (lo + hi) \div 2
             h   == natCmpRange(a, b, mid + 1, hi)
         IN  IF h # 0 THEN h ELSE natCmpRange(a, b, lo, mid)

\* -1, 0, +1 as a < b, a = b, a > b
natCmp(a, b) ==
    IF Len(a) < Len(b) THEN -1
    ELSE IF Len(a) > Len(b) THEN 1
    ELSE IF a = <<>> THEN 0
    ELSE natCmpRange(a, b, 1, Len(a))

\* digits lo..hi of a + b + c, and the carry out of digit hi
RECURSIVE natAddRange(_, _, _, _, _)
natAddRange(a, b, lo, hi, c) ==
    IF lo = hi
    THEN LET t == natDigit(a, lo) + natDigit(b, lo) + c
         IN  [d |-> <<t % ByteBase>>, c |-> t \div ByteBase]
    ELSE LET mid == (lo + hi) \div 2
             L   == natAddRange(a, b, lo, mid, c)
         IN  IF L = L
             THEN LET H == natAddRange(a, b, mid + 1, hi, L.c)
                  IN  [d |-> L.d \o H.d, c |-> H.c]
             ELSE L

natAdd(a, b) ==
    LET n == Max2(Len(a), Len(b))
    IN  IF n = 0 THEN <<>>
        ELSE LET r == natAddRange(a, b, 1, n, 0)
             IN  IF r.c = 0 THEN r.d ELSE r.d \o <<r.c>>

\* digits lo..hi of a - b - c for a >= b, and the borrow out of digit hi
RECURSIVE natSubRange(_, _, _, _, _)
natSubRange(a, b, lo, hi, c) ==
    IF lo = hi
    THEN LET t == a[lo] - natDigit(b, lo) - c
         IN  IF t < 0 THEN [d |-> <<t + ByteBase>>, c |-> 1]
             ELSE [d |-> <<t>>, c |-> 0]
    ELSE LET mid == (lo + hi) \div 2
             L   == natSubRange(a, b, lo, mid, c)
         IN  IF L = L
             THEN LET H == natSubRange(a, b, mid + 1, hi, L.c)
                  IN  [d |-> L.d \o H.d, c |-> H.c]
             ELSE L

natSub(a, b) == IF a = <<>> THEN a ELSE natNorm(natSubRange(a, b, 1, Len(a), 0).d)

\* digits lo..hi of a * d + c for one digit d, and the carry out of digit hi
RECURSIVE natMulSmallRange(_, _, _, _, _)
natMulSmallRange(a, d, lo, hi, c) ==
    IF lo = hi
    THEN LET t == a[lo] * d + c
         IN  [d |-> <<t % ByteBase>>, c |-> t \div ByteBase]
    ELSE LET mid == (lo + hi) \div 2
             L   == natMulSmallRange(a, d, lo, mid, c)
         IN  IF L = L
             THEN LET H == natMulSmallRange(a, d, mid + 1, hi, L.c)
                  IN  [d |-> L.d \o H.d, c |-> H.c]
             ELSE L

natMulSmall(a, d) ==
    IF a = <<>> THEN a
    ELSE LET r == natMulSmallRange(a, d, 1, Len(a), 0)
         IN  natNorm(IF r.c = 0 THEN r.d ELSE r.d \o <<r.c>>)

\* a * 256^k
natShift(a, k) == IF a = <<>> THEN a ELSE [i \in 1..k |-> 0] \o a

\* a * (the digits lo..hi of b, in their places)
RECURSIVE natMulRange(_, _, _, _)
natMulRange(a, b, lo, hi) ==
    IF lo = hi THEN natShift(natMulSmall(a, b[lo]), lo - 1)
    ELSE LET mid == (lo + hi) \div 2
             L   == natMulRange(a, b, lo, mid)
             H   == natMulRange(a, b, mid + 1, hi)
         IN  IF L = L /\ H = H THEN natAdd(L, H) ELSE L

natMul(a, b) == IF a = <<>> \/ b = <<>> THEN <<>> ELSE natMulRange(a, b, 1, Len(b))

\* the largest digit q in lo..hi with b * q <= r, as there is one
RECURSIVE natQuoSearch(_, _, _, _)
natQuoSearch(r, b, lo, hi) ==
    IF lo = hi THEN lo
    ELSE LET mid == (lo + hi + 1) \div 2
         IN  IF natCmp(natMulSmall(b, mid), r) <= 0
             THEN natQuoSearch(r, b, mid, hi)
             ELSE natQuoSearch(r, b, lo, mid - 1)

\* the largest digit q with b * q <= r, for b > 0 and r < b * 256
natQuoDigit(r, b) ==
    IF natCmp(r, b) < 0 THEN 0 ELSE natQuoSearch(r, b, 1, ByteBase - 1)

\* long division by b > 0 over the digits hi, hi-1, .., lo of a, r the
\* remainder carried in from the digits above hi: the digits lo..hi of the
\* quotient, and the remainder carried out
RECURSIVE natDivRange(_, _, _, _, _)
natDivRange(a, b, lo, hi, r) ==
    IF lo = hi
    THEN LET r1 == natNorm(<<a[lo]>> \o r)
             d  == natQuoDigit(r1, b)
         IN  [q |-> <<d>>, r |-> natSub(r1, natMulSmall(b, d))]
    ELSE LET mid == (lo + hi) \div 2
             H   == natDivRange(a, b, mid + 1, hi, r)
         IN  IF H = H
             THEN LET L == natDivRange(a, b, lo, mid, H.r)
                  IN  [q |-> L.q \o H.q, r |-> L.r]
             ELSE H

natDiv(a, b) ==
    IF a = <<>> THEN [q |-> <<>>, r |-> <<>>]
    ELSE LET qr == natDivRange(a, b, 1, Len(a), <<>>)
         IN  [q |-> natNorm(qr.q), r |-> qr.r]

RECURSIVE digitBitLen(_)
digitBitLen(d) == IF d = 0 THEN 0 ELSE 1 + digitBitLen(d \div 2)

natBitLen(a) == IF a = <<>> THEN 0 ELSE 8 * (Len(a) - 1) + digitBitLen(a[Len(a)])

\* bit k of a, counted from 1 at its leading 1 bit
natBit(a, k) ==
    LET p == natBitLen(a) - k
    IN  (a[(p \div 8) + 1] \div 2^(p % 8)) % 2

\* x^y by squaring: z after the bits lo..hi of y, from z before them
RECURSIVE natExpRange(_, _, _, _, _)
natExpRange(z, x, y, lo, hi) ==
    IF lo > hi THEN z
    ELSE IF lo = hi
    THEN LET zz == natMul(z, z)
         IN  IF natBit(y, lo) = 1 THEN natMul(zz, x) ELSE zz
    ELSE LET mid == (lo + hi) \div 2
             L   == natExpRange(z, x, y, lo, mid)
         IN  IF L = L THEN natExpRange(L, x, y, mid + 1, hi) ELSE L

natExp(x, y) ==
    IF y = <<>> THEN <<1>>
    ELSE IF x = <<>> THEN <<>>
    ELSE natExpRange(x, x, y, 2, natBitLen(y))

\* the value of a short magnitude as an integer of TLC
RECURSIVE natToInt(_)
natToInt(a) == IF a = <<>> THEN 0 ELSE a[1] + ByteBase * natToInt(Tail(a))

RECURSIVE natFromInt(_)
natFromInt(n) ==
    IF n = 0 THEN <<>> ELSE <<n % ByteBase>> \o natFromInt(n \div ByteBase)

\* ------------------------------------------------------------------------
\* math/big: type Int
\* ------------------------------------------------------------------------

MkInt(neg, abs) == [neg |-> neg /\ abs # <<>>, abs |-> abs]

\* big.NewInt(0)
BigZero == MkInt(FALSE, <<>>)

BigFromInt(n) == IF n < 0 THEN MkInt(TRUE, natFromInt(-n)) ELSE MkInt(FALSE, natFromInt(n))

Sign(v) == IF v.abs = <<>> THEN 0 ELSE IF v.neg THEN -1 ELSE 1

BitLen(v) == natBitLen(v.abs)

\* big-endian bytes of the magnitude
Bytes(v) == Reverse(v.abs)

SetBytes(buf) == MkInt(FALSE, natNorm(Reverse(buf)))

BigAdd(x, y) ==
    IF x.neg = y.neg
    THEN MkInt(x.neg, natAdd(x.abs, y.abs))
    ELSE IF natCmp(x.abs, y.abs) >= 0
         THEN MkInt(x.neg, natSub(x.abs, y.abs))
         ELSE MkInt(~x.neg, natSub(y.abs, x.abs))

BigSub(x, y) ==
    IF x.neg # y.neg
    THEN MkInt(x.neg, natAdd(x.abs, y.abs))
    ELSE IF natCmp(x.abs, y.abs) >= 0
         THEN MkInt(x.neg, natSub(x.abs, y.abs))
         ELSE MkInt(~x.neg, natSub(y.abs, x.abs))

BigMul(x, y) == MkInt(x.neg # y.neg, natMul(x.abs, y.abs))

BigCmp(x, y) ==
    IF x.neg = y.neg
    THEN (IF x.neg THEN -natCmp(x.abs, y.abs) ELSE natCmp(x.abs, y.abs))
    ELSE IF x.neg THEN -1 ELSE 1

\* Euclidean division for y # 0 (big.Int.Div): QuoRem truncates toward zero,
\* then the quotient is adjusted when the remainder is negative
BigDiv(x, y) ==
    LET qr == natDiv(x.abs, y.abs)
        q  == MkInt(x.neg # y.neg, qr.q)
        rneg == x.neg /\ qr.r # <<>>
    IN  IF rneg
        THEN (IF y.neg THEN BigAdd(q, BigFromInt(1)) ELSE BigSub(q, BigFromInt(1)))
        ELSE q

\* big.Int.Exp(x, y, nil): x^y, and 1 when y <= 0
BigExp(x, y) ==
    IF y.neg \/ y.abs = <<>> THEN BigFromInt(1)
    ELSE MkInt(x.neg /\ y.abs[1] % 2 = 1, natExp(x.abs, y.abs))

\* z.SetString(s, 10): an optional sign, then one or more decimal digits and
\* nothing else.  A string is modelled as the sequence of its characters.
DecimalDigits == <<"0", "1", "2", "3", "4", "5", "6", "7", "8", "9">>

IsDigit(c) == \E i \in 1..Len(DecimalDigits) : DecimalDigits[i] = c

DigitVal(c) == (CHOOSE i \in 1..Len(DecimalDigits) : DecimalDigits[i] = c) - 1

\* acc after the digits lo..hi of ds, from acc before them
RECURSIVE natFromDigits(_, _, _, _)
natFromDigits(ds, lo, hi, acc) ==
    IF lo = hi
    THEN LET d == DigitVal(ds[lo])
         IN  natAdd(natMulSmall(acc, 10), IF d = 0 THEN <<>> ELSE <<d>>)
    ELSE LET mid == (lo + hi) \div 2
             L   == natFromDigits(ds, lo, mid, acc)
         IN  IF L = L THEN natFromDigits(ds, mid + 1, hi, L) ELSE L

SetString(str) ==
    LET signed == str # <<>> /\ str[1] \in {"+", "-"}
        neg    == str # <<>> /\ str[1] = "-"
        ds     == IF signed THEN Tail(str) ELSE str
        ok     == ds # <<>> /\ \A i \in 1..Len(ds) : IsDigit(ds[i])
    IN  [ok |-> ok, val |-> IF ok THEN MkInt(neg, natFromDigits(ds, 1, Len(ds), <<>>)) ELSE BigZero]

\* ------------------------------------------------------------------------
\* Pure parts of util/uint128.go
\* ------------------------------------------------------------------------

\* Faulty variant: Validate without the test of the bit length
ValidateSignOnly(v) ==
    IF Sign(v) < 0 THEN ErrUint128Underflow ELSE ErrNil

\* Faulty variant: Validate with the two tests in the other order
ValidateOverflowFirst(v) ==
    IF BitLen(v) > Uint128Bits THEN ErrUint128Overflow
    ELSE IF Sign(v) < 0 THEN ErrUint128Underflow
    ELSE ErrNil

\* (u *Uint128) Validate, on the value of u.Int
Validate(v) ==
    IF Sign(v) < 0 THEN ErrUint128Underflow
    ELSE IF BitLen(v) > Uint128Bits THEN ErrUint128Overflow
    ELSE ErrNil

ZeroBytes(n) == [i \in 1..n |-> 0]

\* Faulty variant: ToFixedSizeBytes that copies the bytes to the front of the array
ToFixedSizeBytesLeftAligned(v) ==
    LET res == ZeroBytes(Uint128Bytes)
        err == Validate(v)
        bs  == Bytes(v)
    IN  IF err # ErrNil THEN [res |-> res, err |-> err]
        ELSE [res |-> bs \o SubSeq(res, 1, Uint128Bytes - Len(bs)), err |-> ErrNil]

\* (u *Uint128) ToFixedSizeBytes, on the value of u.Int: the array and the error
ToFixedSizeBytesResult(v) ==
    LET res == ZeroBytes(Uint128Bytes)
        err == Validate(v)
        bs  == Bytes(v)
        l   == Len(bs)
        idx == Uint128Bytes - l
    IN  IF err # ErrNil THEN [res |-> res, err |-> err]
        ELSE IF l = 0 THEN [res |-> res, err |-> ErrNil]
        ELSE IF idx < Uint128Bytes
             THEN [res |-> SubSeq(res, 1, idx) \o bs, err |-> ErrNil]
             ELSE [res |-> res, err |-> ErrNil]

\* the index (from 0) of the first non-zero byte, the loop of lines 137-142
RECURSIVE SkipZeroBytes(_, _)
SkipZeroBytes(bytes, i) ==
    IF i < Uint128Bytes /\ bytes[i + 1] = 0 THEN SkipZeroBytes(bytes, i + 1) ELSE i

\* Faulty variant: FromFixedSizeByteSlice that rejects only the slices that are too short
FromFixedSizeByteSliceAtLeast(cur, bytes) ==
    IF Len(bytes) < Uint128Bytes
    THEN [ok |-> FALSE, val |-> cur, err |-> ErrUint128InvalidBytesSize]
    ELSE [ok |-> TRUE, val |-> SetBytes(bytes), err |-> ErrNil]

\* Faulty variant: FromFixedSizeByteSlice that also skips the first non-zero byte
FromFixedSizeByteSliceSkipOne(cur, bytes) ==
    IF Len(bytes) # Uint128Bytes
    THEN [ok |-> FALSE, val |-> cur, err |-> ErrUint128InvalidBytesSize]
    ELSE LET i == SkipZeroBytes(bytes, 0)
         IN  IF i < Uint128Bytes
             THEN [ok |-> TRUE, val |-> SetBytes(SubSeq(bytes, i + 2, Len(bytes))), err |-> ErrNil]
             ELSE [ok |-> TRUE, val |-> BigZero, err |-> ErrNil]

\* (u *Uint128) FromFixedSizeByteSlice: whether it returns u, the value it
\* leaves in u.Int (cur is the value before the call) and the error
FromFixedSizeByteSliceResult(cur, bytes) ==
    IF Len(bytes) # Uint128Bytes
    THEN [ok |-> FALSE, val |-> cur, err |-> ErrUint128InvalidBytesSize]
    ELSE LET i == SkipZeroBytes(bytes, 0)
         IN  IF i < Uint128Bytes
             THEN [ok |-> TRUE, val |-> SetBytes(SubSeq(bytes, i + 1, Len(bytes))), err |-> ErrNil]
             ELSE [ok |-> TRUE, val |-> BigZero, err |-> ErrNil]

\* ------------------------------------------------------------------------
\* Bounds and inputs
\* ------------------------------------------------------------------------

\* the most instances a run of Spec creates
MaxInst == 2

\* the most instances a run of SpecCtor creates
MaxCtor == 1

\* the most results a run of SpecArith keeps
MaxArith == 1

\* the most results a run of SpecFrame keeps
MaxFrame == 1

\* the most instances a run of SpecCopy creates
MaxCopy == 2

\* the most bits of a power that Exp is asked to compute
MaxExpBits == 256

TwoTo64 == MkInt(FALSE, ZeroBytes(8) \o <<1>>)

TwoTo128 == MkInt(FALSE, ZeroBytes(Uint128Bytes) \o <<1>>)

MaxUint128 == MkInt(FALSE, [i \in 1..Uint128Bytes |-> ByteBase - 1])

MaxBytes == [i \in 1..Uint128Bytes |-> ByteBase - 1]

\* Spec: the big.Int values the caller owns and passes to NewUint128FromBigInt
SrcValues == { BigFromInt(-1), BigFromInt(2), TwoTo128 }

\* Spec: arguments of NewUint128FromInt
Int64Inputs == { BigFromInt(-1), BigFromInt(2) }

\* Spec: arguments of NewUint128FromString
StrInputs == { <<"x">>, <<"-", "1">>, <<"2">> }

\* Spec: [16]byte arguments
ArrayInputs == { MaxBytes }

\* Spec: []byte arguments, of 16, 15, 17 and 0 bytes
SliceInputs ==
    { ZeroBytes(Uint128Bytes), ZeroBytes(Uint128Bytes - 1),
      <<1>> \o ZeroBytes(Uint128Bytes), <<>> }

\* SpecCtor: the caller's big.Int values, on both sides of both ends of the range
CtorSrcValues ==
    { BigFromInt(-1), BigFromInt(0), BigFromInt(5), TwoTo64, MaxUint128, TwoTo128,
      BigAdd(TwoTo128, BigFromInt(1)), MkInt(TRUE, TwoTo128.abs),
      MkInt(TRUE, MaxUint128.abs), MkInt(FALSE, ZeroBytes(24) \o <<7>>) }

\* SpecCtor: int64 arguments, with both ends of int64
CtorInt64Inputs ==
    { MkInt(TRUE, ZeroBytes(7) \o <<128>>), BigFromInt(-1), BigFromInt(0),
      BigFromInt(1), BigFromInt(65536),
      MkInt(FALSE, [i \in 1..8 |-> IF i = 8 THEN 127 ELSE ByteBase - 1]) }

\* SpecCtor: strings, well-formed and not, with 2^128 - 1, 2^128 and -2^128
CtorStrInputs ==
    { <<>>, <<"-">>, <<"+">>, <<"1", "a">>, <<" ", "1">>, <<"1", "-">>,
      <<"-", "1">>, <<"-", "0">>, <<"+", "1", "0">>, <<"0", "1", "2", "7">>,
      <<"3", "4", "0", "2", "8", "2", "3", "6", "6", "9", "2", "0", "9", "3", "8", "4", "6", "3", "4", "6", "3", "3", "7", "4", "6", "0", "7", "4", "3", "1", "7", "6", "8", "2", "1", "1", "4", "5", "5">>,
      <<"3", "4", "0", "2", "8", "2", "3", "6", "6", "9", "2", "0", "9", "3", "8", "4", "6", "3", "4", "6", "3", "3", "7", "4", "6", "0", "7", "4", "3", "1", "7", "6", "8", "2", "1", "1", "4", "5", "6">>,
      <<"-", "3", "4", "0", "2", "8", "2", "3", "6", "6", "9", "2", "0", "9", "3", "8", "4", "6", "3", "4", "6", "3", "3", "7", "4", "6", "0", "7", "4", "3", "1", "7", "6", "8", "2", "1", "1", "4", "5", "6">> }

\* SpecArith: the values of the two operands
ArithOperands ==
    { BigFromInt(0), BigFromInt(1), BigFromInt(2), BigFromInt(3), BigFromInt(10),
      TwoTo64, MaxUint128 }

\* SpecFrame: the values of the two instances, and the arrays decoded into them
FrameValues == { BigFromInt(0), BigFromInt(2), MaxUint128 }

FrameArrays == { ZeroBytes(Uint128Bytes - 1) \o <<5>> }

\* SpecCopy: the value of the instance, and the arrays decoded into instances
CopyValues == { BigFromInt(2), MaxUint128 }

CopyArrays == { ZeroBytes(Uint128Bytes - 1) \o <<7>> }

\* SpecCodec: the values of the instance
CodecValues ==
    { BigFromInt(0), BigFromInt(1), BigFromInt(255), BigFromInt(256), TwoTo64,
      MkInt(FALSE, ZeroBytes(15) \o <<128>>), MaxUint128,
      MkInt(FALSE, [i \in 1..Uint128Bytes |-> i]) }

\* SpecCodec: [16]byte arguments
CodecArrays ==
    { ZeroBytes(Uint128Bytes), MaxBytes,
      ZeroBytes(15) \o <<1>>, <<1>> \o ZeroBytes(15), <<128>> \o ZeroBytes(15),
      ZeroBytes(7) \o <<1>> \o ZeroBytes(8), ZeroBytes(14) \o <<1, 0>>,
      <<0, 255>> \o ZeroBytes(14), [i \in 1..Uint128Bytes |-> i],
      [i \in 1..Uint128Bytes |-> Uint128Bytes - i] }

\* SpecCodec: []byte arguments: the arrays, and slices of 0, 1, 15, 17 and 32 bytes
CodecSlices ==
    CodecArrays \cup
    { <<>>, <<7>>, ZeroBytes(Uint128Bytes - 1), [i \in 1..Uint128Bytes - 1 |-> ByteBase - 1],
      <<1>> \o ZeroBytes(Uint128Bytes), ZeroBytes(Uint128Bytes) \o <<1>>,
      ZeroBytes(2 * Uint128Bytes) }

\* ------------------------------------------------------------------------
\* State
\* ------------------------------------------------------------------------

VARIABLES
    heap,    \* the big.Int objects: heap[a] is the value of the one at address a
    inst,    \* the Uint128 instances: inst[u] is the address u.Int points to
    origin,  \* origin[u]: the kind of operation that returned instance u
    ret,     \* the last call: its arguments, what it returned and its error
    budget   \* the number of instances the run may still create

vars == <<heap, inst, origin, ret, budget>>

ArithOps == {"Add", "Sub", "Mul", "Div", "Exp"}

\* how an instance came to be: returned by a constructor, by an arithmetic
\* operation or by DeepCopy
Kind(op) ==
    IF op \in ArithOps THEN "arithmetic"
    ELSE IF op = "DeepCopy" THEN "copy"
    ELSE "constructor"

\* address of the caller-owned big.Int, the argument of NewUint128FromBigInt
SrcAddr == 1

Instances == 1..Len(inst)

\* the value of instance u
Val(u) == heap[inst[u]]

\* no call yet; recv, arg and res are instances, 0 for none (nil)
NoCall ==
    [op |-> "none", recv |-> 0, arg |-> 0, n |-> BigZero, bytes |-> <<>>,
     str |-> <<>>, res |-> 0, out |-> <<>>, err |-> ErrNil]

\* a run-time panic ends the process
Running == ret.err # Panic

CanAlloc == budget > 0

Init ==
    /\ \E v \in SrcValues : heap = <<v>>
    /\ inst = <<>>
    /\ origin = <<>>
    /\ ret = NoCall
    /\ budget = MaxInst

\* op returns a new instance that points to a new big.Int of value v
Allocate(op, v, call) ==
    /\ heap' = Append(heap, v)
    /\ inst' = Append(inst, Len(heap) + 1)
    /\ origin' = Append(origin, Kind(op))
    /\ ret' = [call EXCEPT !.op = op, !.res = Len(inst) + 1]
    /\ budget' = budget - 1

\* op returns (nil, err); what it had allocated is garbage
Fail(op, err, call) ==
    /\ ret' = [call EXCEPT !.op = op, !.err = err]
    /\ UNCHANGED <<heap, inst, origin, budget>>

\* ------------------------------------------------------------------------
\* Constructors
\* ------------------------------------------------------------------------

NewUint128 ==
    /\ Running /\ CanAlloc
    /\ Allocate("NewUint128", BigZero, NoCall)

NewUint128FromString(str) ==
    /\ Running /\ CanAlloc
    /\ LET p    == SetString(str)
           call == [NoCall EXCEPT !.str = str]
       IN  IF ~p.ok THEN Fail("NewUint128FromString", ErrUint128InvalidString, call)
           ELSE IF Validate(p.val) # ErrNil
                THEN Fail("NewUint128FromString", Validate(p.val), call)
                ELSE Allocate("NewUint128FromString", p.val, call)

\* i is the value of the int64 argument; big.NewInt(i) has that value
NewUint128FromInt(i) ==
    /\ Running /\ CanAlloc
    /\ LET call == [NoCall EXCEPT !.n = i]
       IN  IF Validate(i) # ErrNil
           THEN Fail("NewUint128FromInt", Validate(i), call)
           ELSE Allocate("NewUint128FromInt", i, call)

\* obj := &Uint128{i}: the new instance points to the caller's big.Int, at a
NewUint128FromBigInt(a) ==
    /\ Running /\ CanAlloc
    /\ LET call == [NoCall EXCEPT !.n = heap[a]]
       IN  IF Validate(heap[a]) # ErrNil
           THEN Fail("NewUint128FromBigInt", Validate(heap[a]), call)
           ELSE /\ inst' = Append(inst, a)
                /\ origin' = Append(origin, Kind("NewUint128FromBigInt"))
                /\ ret' = [call EXCEPT !.op = "NewUint128FromBigInt", !.res = Len(inst) + 1]
                /\ budget' = budget - 1
                /\ UNCHANGED heap

NewUint128FromFixedSizeBytes(bytes) ==
    /\ Running /\ CanAlloc
    /\ LET d == FromFixedSizeByteSliceResult(BigZero, bytes)
       IN  Allocate("NewUint128FromFixedSizeBytes", d.val, [NoCall EXCEPT !.bytes = bytes])

NewUint128FromFixedSizeByteSlice(bytes) ==
    /\ Running /\ CanAlloc
    /\ LET d    == FromFixedSizeByteSliceResult(BigZero, bytes)
           call == [NoCall EXCEPT !.bytes = bytes]
       IN  IF d.ok THEN Allocate("NewUint128FromFixedSizeByteSlice", d.val, call)
           ELSE Fail("NewUint128FromFixedSizeByteSlice", d.err, call)

\* ------------------------------------------------------------------------
\* Codec
\* ------------------------------------------------------------------------

ToFixedSizeBytes(u) ==
    /\ Running
    /\ LET e == ToFixedSizeBytesResult(Val(u))
       IN  ret' = [NoCall EXCEPT !.op = "ToFixedSizeBytes", !.recv = u,
                                 !.out = e.res, !.err = e.err]
    /\ UNCHANGED <<heap, inst, origin, budget>>

\* bytes[:] of the array ToFixedSizeBytes returns, and its error
ToFixedSizeByteSlice(u) ==
    /\ Running
    /\ LET e == ToFixedSizeBytesResult(Val(u))
       IN  ret' = [NoCall EXCEPT !.op = "ToFixedSizeByteSlice", !.recv = u,
                                 !.out = e.res, !.err = e.err]
    /\ UNCHANGED <<heap, inst, origin, budget>>

\* u.SetBytes and u.SetUint64 write the big.Int that u.Int points to
FromFixedSizeByteSlice(u, bytes) ==
    /\ Running
    /\ LET d == FromFixedSizeByteSliceResult(Val(u), bytes)
       IN  /\ heap' = [heap EXCEPT ![inst[u]] = d.val]
           /\ ret' = [NoCall EXCEPT !.op = "FromFixedSizeByteSlice", !.recv = u,
                                    !.bytes = bytes,
                                    !.res = IF d.ok THEN u ELSE 0, !.err = d.err]
    /\ UNCHANGED <<inst, origin, budget>>

\* the error of FromFixedSizeByteSlice is dropped and u is returned
FromFixedSizeBytes(u, bytes) ==
    /\ Running
    /\ LET d == FromFixedSizeByteSliceResult(Val(u), bytes)
       IN  /\ heap' = [heap EXCEPT ![inst[u]] = d.val]
           /\ ret' = [NoCall EXCEPT !.op = "FromFixedSizeBytes", !.recv = u,
                                    !.bytes = bytes, !.res = u]
    /\ UNCHANGED <<inst, origin, budget>>

\* ------------------------------------------------------------------------
\* Arithmetic and DeepCopy
\* ------------------------------------------------------------------------

\* obj := &Uint128{NewUint128().Int.Op(u.Int, x.Int)}, v the value Op leaves
\* in the new big.Int; then obj.Validate() decides between (nil, err) and obj
Arith(op, u, x, v) ==
    \E z \in {v} :
        LET call == [NoCall EXCEPT !.recv = u, !.arg = x]
            err  == Validate(z)
        IN  IF err # ErrNil THEN Fail(op, err, call)
            ELSE Allocate(op, z, call)

\* Faulty variant: Add as u.Int.Add(u.Int, x.Int), the sum left in the receiver
AddInPlace(u, x) ==
    /\ Running /\ CanAlloc
    /\ LET v    == BigAdd(Val(u), Val(x))
           call == [NoCall EXCEPT !.recv = u, !.arg = x]
       IN  IF Validate(v) # ErrNil THEN Fail("Add", Validate(v), call)
           ELSE /\ heap' = [heap EXCEPT ![inst[u]] = v]
                /\ inst' = Append(inst, inst[u])
                /\ origin' = Append(origin, Kind("Add"))
                /\ ret' = [call EXCEPT !.op = "Add", !.res = Len(inst) + 1]
                /\ budget' = budget - 1

Add(u, x) ==
    /\ Running /\ CanAlloc
    /\ Arith("Add", u, x, BigAdd(Val(u), Val(x)))

\* Faulty variant: Sub that wraps a negative difference around 2^128
SubWrapping(u, x) ==
    /\ Running /\ CanAlloc
    /\ LET d == BigSub(Val(u), Val(x))
       IN  Arith("Sub", u, x, IF d.neg THEN BigAdd(d, TwoTo128) ELSE d)

Sub(u, x) ==
    /\ Running /\ CanAlloc
    /\ Arith("Sub", u, x, BigSub(Val(u), Val(x)))

Mul(u, x) ==
    /\ Running /\ CanAlloc
    /\ Arith("Mul", u, x, BigMul(Val(u), Val(x)))

\* big.Int.Div panics when the divisor is zero
Div(u, x) ==
    /\ Running /\ CanAlloc
    /\ IF Sign(Val(x)) = 0
       THEN /\ ret' = [NoCall EXCEPT !.op = "Div", !.recv = u, !.arg = x, !.err = Panic]
            /\ UNCHANGED <<heap, inst, origin, budget>>
       ELSE Arith("Div", u, x, BigDiv(Val(u), Val(x)))

\* Exp computes the power in full before it validates it; the model follows
\* the calls whose power has at most MaxExpBits bits
ExpComputable(b, e) ==
    /\ Len(e.abs) <= 2
    /\ BitLen(b) * natToInt(e.abs) <= MaxExpBits

Exp(u, x) ==
    /\ Running /\ CanAlloc
    /\ ExpComputable(Val(u), Val(x))
    /\ Arith("Exp", u, x, BigExp(Val(u), Val(x)))

\* Faulty variant: DeepCopy as &Uint128{u.Int}, a second pointer to the same big.Int
DeepCopyShallow(u) ==
    /\ Running /\ CanAlloc
    /\ inst' = Append(inst, inst[u])
    /\ origin' = Append(origin, Kind("DeepCopy"))
    /\ ret' = [NoCall EXCEPT !.op = "DeepCopy", !.recv = u, !.res = Len(inst) + 1]
    /\ budget' = budget - 1
    /\ UNCHANGED heap

\* z := new(big.Int); z.Set(u.Int); return &Uint128{z}
DeepCopy(u) ==
    /\ Running /\ CanAlloc
    /\ Allocate("DeepCopy", Val(u), [NoCall EXCEPT !.recv = u])

\* ------------------------------------------------------------------------
\* Specifications
\* ------------------------------------------------------------------------

\* every operation, from no instance at all
Next ==
    \/ NewUint128
    \/ \E str \in StrInputs : NewUint128FromString(str)
    \/ \E i \in Int64Inputs : NewUint128FromInt(i)
    \/ NewUint128FromBigInt(SrcAddr)
    \/ \E bytes \in ArrayInputs : NewUint128FromFixedSizeBytes(bytes)
    \/ \E bytes \in SliceInputs : NewUint128FromFixedSizeByteSlice(bytes)
    \/ \E u \in Instances : ToFixedSizeBytes(u)
    \/ \E u \in Instances : ToFixedSizeByteSlice(u)
    \/ \E u \in Instances, bytes \in SliceInputs : FromFixedSizeByteSlice(u, bytes)
    \/ \E u \in Instances, bytes \in ArrayInputs : FromFixedSizeBytes(u, bytes)
    \/ \E u \in Instances, x \in Instances : Add(u, x)
    \/ \E u \in Instances, x \in Instances : Sub(u, x)
    \/ \E u \in Instances, x \in Instances : Mul(u, x)
    \/ \E u \in Instances, x \in Instances : Div(u, x)
    \/ \E u \in Instances, x \in Instances : Exp(u, x)
    \/ \E u \in Instances : DeepCopy(u)

Spec == Init /\ [][Next]_vars

\* the constructors that validate, on inputs around both ends of the range
InitCtor ==
    /\ \E v \in CtorSrcValues : heap = <<v>>
    /\ inst = <<>>
    /\ origin = <<>>
    /\ ret = NoCall
    /\ budget = MaxCtor

NextCtor ==
    \/ \E str \in CtorStrInputs : NewUint128FromString(str)
    \/ \E i \in CtorInt64Inputs : NewUint128FromInt(i)
    \/ NewUint128FromBigInt(SrcAddr)

SpecCtor == InitCtor /\ [][NextCtor]_vars

\* two instances with their own big.Int, as NewUint128FromFixedSizeBytes
\* returns them, of values a and b
TwoInstances(a, b, n) ==
    /\ heap = <<BigZero, a, b>>
    /\ inst = <<2, 3>>
    /\ origin = <<Kind("NewUint128FromFixedSizeBytes"), Kind("NewUint128FromFixedSizeBytes")>>
    /\ ret = NoCall
    /\ budget = n

\* arithmetic on two operands
InitArith == \E a \in ArithOperands, b \in ArithOperands : TwoInstances(a, b, MaxArith)

NextArith ==
    \/ \E u \in Instances, x \in Instances : Add(u, x)
    \/ \E u \in Instances, x \in Instances : Sub(u, x)
    \/ \E u \in Instances, x \in Instances : Mul(u, x)
    \/ \E u \in Instances, x \in Instances : Div(u, x)
    \/ \E u \in Instances, x \in Instances : Exp(u, x)

SpecArith == InitArith /\ [][NextArith]_vars

\* arithmetic and copies on two instances, and decoding into any instance
InitFrame == \E a \in FrameValues, b \in FrameValues : TwoInstances(a, b, MaxFrame)

NextFrame ==
    \/ \E u \in Instances, x \in Instances : Add(u, x)
    \/ \E u \in Instances, x \in Instances : Sub(u, x)
    \/ \E u \in Instances, x \in Instances : Mul(u, x)
    \/ \E u \in Instances, x \in Instances : Div(u, x)
    \/ \E u \in Instances, x \in Instances : Exp(u, x)
    \/ \E u \in Instances : DeepCopy(u)
    \/ \E u \in Instances, bytes \in FrameArrays : FromFixedSizeBytes(u, bytes)

SpecFrame == InitFrame /\ [][NextFrame]_vars

\* copies of one instance, arithmetic on it and on its copies, and decoding
\* into any of them
InitCopy ==
    /\ \E v \in CopyValues : heap = <<BigZero, v>>
    /\ inst = <<2>>
    /\ origin = <<Kind("NewUint128FromFixedSizeBytes")>>
    /\ ret = NoCall
    /\ budget = MaxCopy

NextCopy ==
    \/ \E u \in Instances : DeepCopy(u)
    \/ \E u \in Instances, x \in Instances : Add(u, x)
    \/ \E u \in Instances, x \in Instances : Sub(u, x)
    \/ \E u \in Instances, x \in Instances : Mul(u, x)
    \/ \E u \in Instances, x \in Instances : Div(u, x)
    \/ \E u \in Instances, x \in Instances : Exp(u, x)
    \/ \E u \in Instances, bytes \in CopyArrays : FromFixedSizeBytes(u, bytes)

SpecCopy == InitCopy /\ [][NextCopy]_vars

\* the codec on one instance
InitCodec ==
    /\ \E v \in CodecValues : heap = <<BigZero, v>>
    /\ inst = <<2>>
    /\ origin = <<Kind("NewUint128FromFixedSizeBytes")>>
    /\ ret = NoCall
    /\ budget = 0

NextCodec ==
    \/ \E u \in Instances : ToFixedSizeBytes(u)
    \/ \E u \in Instances : ToFixedSizeByteSlice(u)
    \/ \E u \in Instances, bytes \in CodecSlices : FromFixedSizeByteSlice(u, bytes)
    \/ \E u \in Instances, bytes \in CodecArrays : FromFixedSizeBytes(u, bytes)

SpecCodec == InitCodec /\ [][NextCodec]_vars

\* ------------------------------------------------------------------------
\* Properties
\* ------------------------------------------------------------------------

EncodeOps == {"ToFixedSizeBytes", "ToFixedSizeByteSlice"}

DecodeOps == {"FromFixedSizeBytes", "FromFixedSizeByteSlice"}

\* 0 <= v <= 2^128 - 1, by comparison
InRange(v) == BigCmp(v, BigZero) >= 0 /\ BigCmp(v, MaxUint128) <= 0

\* the number whose base-256 digits, most significant first, are b[lo..hi]
RECURSIVE BigEndianRange(_, _, _)
BigEndianRange(b, lo, hi) ==
    IF lo = hi THEN (IF b[lo] = 0 THEN <<>> ELSE <<b[lo]>>)
    ELSE LET mid == (lo + hi) \div 2
         IN  natAdd(natMul(BigEndianRange(b, lo, mid), natShift(<<1>>, hi - mid)),
                    BigEndianRange(b, mid + 1, hi))

BigEndianValue(b) ==
    MkInt(FALSE, IF b = <<>> THEN <<>> ELSE BigEndianRange(b, 1, Len(b)))

\* b^n for a natural number n, with b^0 = 1
RECURSIVE Power(_, _)
Power(b, n) ==
    IF n = 0 THEN BigFromInt(1)
    ELSE LET h == Power(b, n \div 2)
         IN  IF n % 2 = 0 THEN BigMul(h, h) ELSE BigMul(BigMul(h, h), b)

\* the exact result of op on u and x, for x # 0 when op is Div
Exact(op, u, x) ==
    CASE op = "Add" -> BigAdd(u, x)
      [] op = "Sub" -> BigSub(u, x)
      [] op = "Mul" -> BigMul(u, x)
      [] op = "Div" -> BigDiv(u, x)
      [] op = "Exp" -> Power(u, natToInt(x.abs))

\* q is the quotient of u by x truncated toward zero, for u >= 0 and x > 0
IsQuotient(q, u, x) ==
    /\ BigCmp(BigMul(q, x), u) <= 0
    /\ BigCmp(BigMul(BigAdd(q, BigFromInt(1)), x), u) > 0

\* a value small enough for the integers of TLC
Small(v) == ~v.neg /\ Len(v.abs) <= 1

ToInt(v) == IF v.neg THEN -natToInt(v.abs) ELSE natToInt(v.abs)

\* on small operands the exact result is the one the integers of TLC give
NativeAgrees(op, u, x, r) ==
    (Small(u) /\ Small(x)) =>
        CASE op = "Add" -> ToInt(r) = ToInt(u) + ToInt(x)
          [] op = "Sub" -> ToInt(r) = ToInt(u) - ToInt(x)
          [] op = "Mul" -> ToInt(r) = ToInt(u) * ToInt(x)
          [] op = "Div" -> ToInt(r) = ToInt(u) \div ToInt(x)
          [] op = "Exp" -> (ToInt(x) >= 1 /\ BitLen(u) * ToInt(x) <= 30)
                               => ToInt(r) = ToInt(u) ^ ToInt(x)

\* the call of the step is an in-place decode into instance c
DecodeInto(c) == ret'.op \in DecodeOps /\ ret'.recv = c

\* C1: after any sequence of the operations, every instance that an operation
\* returned without an error holds a value v with 0 <= v <= 2^128 - 1.
C1_RangeInvariant == \A u \in Instances : InRange(Val(u))

\* C1 witness: an instance holds 2^128 - 1 and the last call failed with Overflow
C1_Witness ==
    /\ \E u \in Instances : Val(u) = MaxUint128
    /\ ret.op \in ArithOps
    /\ ret.err = ErrUint128Overflow

C2_Step ==
    (ret'.op \in ArithOps /\ ret'.err # Panic) =>
        \A u \in {Val(ret'.recv)}, x \in {Val(ret'.arg)} :
            \A r \in {Exact(ret'.op, u, x)} :
                /\ InRange(r) =>
                       /\ ret'.err = ErrNil
                       /\ ret'.res \in 1..Len(inst')
                       /\ heap'[inst'[ret'.res]] = r
                /\ BigCmp(r, BigZero) < 0 =>
                       ret'.err = ErrUint128Underflow /\ ret'.res = 0
                /\ BigCmp(r, TwoTo128) >= 0 =>
                       ret'.err = ErrUint128Overflow /\ ret'.res = 0
                /\ ret'.op = "Div" => IsQuotient(r, u, x)
                /\ NativeAgrees(ret'.op, u, x, r)

\* C2: on in-range operands u and x (x # 0 for Div) each of Add, Sub, Mul, Div
\* and Exp returns the exact result r (u+x, u-x, u*x, the truncated quotient,
\* u^x) when 0 <= r <= 2^128 - 1, fails with Underflow when r < 0 and with
\* Overflow when r >= 2^128; no result is clamped, wrapped or truncated.
C2_ArithmeticExact == [][C2_Step]_vars

\* C2 witness: Mul of 2^64 by 2^64, one past the maximum, failed with Overflow
C2_Witness ==
    /\ ret.op = "Mul"
    /\ ret.recv # ret.arg
    /\ Val(ret.recv) = TwoTo64 /\ Val(ret.arg) = TwoTo64
    /\ ret.err = ErrUint128Overflow

\* C3: for every in-range value v, ToFixedSizeBytes and ToFixedSizeByteSlice
\* succeed with exactly 16 bytes that are v in big-endian order, zero-padded at
\* the most significant end, and decoding those bytes yields v.
C3_BinaryRoundTrip ==
    ret.op \in EncodeOps =>
        LET v == Val(ret.recv)
        IN  /\ ret.err = ErrNil
            /\ Len(ret.out) = Uint128Bytes
            /\ \A i \in 1..Len(ret.out) : ret.out[i] \in Byte
            /\ BigEndianValue(ret.out) = v
            /\ FromFixedSizeByteSliceResult(BigZero, ret.out)
                   = [ok |-> TRUE, val |-> v, err |-> ErrNil]

\* C3 witness: 256 was encoded, as fourteen zero bytes, then 1, then 0
C3_Witness ==
    /\ ret.op = "ToFixedSizeBytes"
    /\ Val(ret.recv) = BigFromInt(256)
    /\ ret.out = ZeroBytes(14) \o <<1, 0>>

\* the integer a validating constructor was given
CtorGiven ==
    IF ret.op = "NewUint128FromString" THEN SetString(ret.str).val ELSE ret.n

\* C4: NewUint128FromBigInt, NewUint128FromInt and NewUint128FromString (on a
\* string that parses) fail with Underflow if the integer n is negative, also
\* when |n| needs more than 128 bits, otherwise with Overflow if n >= 2^128,
\* and otherwise succeed with a value equal to n.
C4_ConstructorRangeGuard ==
    (\/ ret.op \in {"NewUint128FromInt", "NewUint128FromBigInt"}
     \/ ret.op = "NewUint128FromString" /\ SetString(ret.str).ok) =>
        LET n == CtorGiven
        IN  IF BigCmp(n, BigZero) < 0
            THEN ret.err = ErrUint128Underflow /\ ret.res = 0
            ELSE IF BigCmp(n, TwoTo128) >= 0
            THEN ret.err = ErrUint128Overflow /\ ret.res = 0
            ELSE ret.err = ErrNil /\ ret.res \in Instances /\ Val(ret.res) = n

\* C4 witness: NewUint128FromBigInt was given -2^128 and failed with Underflow
C4_Witness ==
    /\ ret.op = "NewUint128FromBigInt"
    /\ ret.n = MkInt(TRUE, TwoTo128.abs)
    /\ ret.err = ErrUint128Underflow

\* C5: every operation completes by returning a value or one of Overflow,
\* Underflow, InvalidBytesSize, InvalidString; none aborts the process, also
\* Div with a zero divisor.
C5_NoFatalFailure ==
    ret.err \in {ErrNil, ErrUint128Overflow, ErrUint128Underflow,
                 ErrUint128InvalidBytesSize, ErrUint128InvalidString}

\* C6: every 16-byte buffer b decodes without error to its big-endian value,
\* and encoding the decoded value gives b back; so no two distinct buffers
\* decode to the same value.
C6_CanonicalEncoding ==
    (ret.op \in DecodeOps /\ Len(ret.bytes) = Uint128Bytes) =>
        /\ ret.err = ErrNil
        /\ ret.res = ret.recv
        /\ Val(ret.recv) = BigEndianValue(ret.bytes)
        /\ ToFixedSizeBytesResult(Val(ret.recv)) = [res |-> ret.bytes, err |-> ErrNil]
        /\ \A b \in CodecArrays :
               FromFixedSizeByteSliceResult(BigZero, b).val = Val(ret.recv) => b = ret.bytes

\* C6 witness: the buffer 00 ff 00 .. 00 was decoded, to 255 * 256^14
C6_Witness ==
    /\ ret.op = "FromFixedSizeBytes"
    /\ ret.bytes = <<0, 255>> \o ZeroBytes(14)
    /\ Val(ret.recv) = MkInt(FALSE, ZeroBytes(14) \o <<255>>)

C7_Step ==
    (/\ ret'.op \in {"FromFixedSizeByteSlice", "NewUint128FromFixedSizeByteSlice"}
     /\ Len(ret'.bytes) # Uint128Bytes) =>
        /\ ret'.err = ErrUint128InvalidBytesSize
        /\ ret'.res = 0
        /\ heap' = heap
        /\ inst' = inst

\* C7: decoding a byte sequence whose length is not 16 fails with
\* InvalidBytesSize, returns no instance and leaves the receiver's value (and
\* every other value) unchanged.
C7_ByteSizeGuard == [][C7_Step]_vars

\* C7 witness: a 17-byte slice was decoded into an instance of value 2^128 - 1
C7_Witness ==
    /\ ret.op = "FromFixedSizeByteSlice"
    /\ Len(ret.bytes) = Uint128Bytes + 1
    /\ ret.err = ErrUint128InvalidBytesSize
    /\ Val(ret.recv) = MaxUint128

C8_Step ==
    \A w \in Instances :
        (ret'.op \in DecodeOps /\ ret'.recv # w) => heap'[inst'[w]] = heap[inst[w]]

\* C8: no two distinct instances share mutable state: an in-place decode into
\* one instance never changes the value of any other instance.
C8_InstanceIndependence == [][C8_Step]_vars

C9_Step ==
    /\ ret'.op = "DeepCopy" =>
           LET c == ret'.res
           IN  /\ c = Len(inst) + 1 /\ Len(inst') = c
               /\ heap'[inst'[c]] = Val(ret'.recv)
               /\ inst'[c] # SrcAddr
               /\ \A w \in Instances : inst'[c] # inst[w] /\ heap'[inst'[w]] = Val(w)
    /\ \A c \in Instances :
           origin[c] = Kind("DeepCopy") =>
               /\ ~DecodeInto(c) => heap'[inst'[c]] = Val(c)
               /\ DecodeInto(c) =>
                      \A w \in Instances \ {c} : heap'[inst'[w]] = Val(w)

\* C9: DeepCopy of u returns a distinct instance of u's value with its own
\* big.Int; no later step other than a decode into the copy changes the
\* copy's value, and a decode into the copy changes no other instance.
C9_DeepCopyIndependence == [][C9_Step]_vars

\* C9 witness: instance 2 is a copy of instance 1, instance 3 the result of
\* arithmetic after the copy, and 7 has since been decoded into instance 1
\* while the copy kept the value 2^128 - 1
C9_Witness ==
    /\ Len(inst) = 3
    /\ origin[2] = Kind("DeepCopy") /\ origin[3] = Kind("Add")
    /\ ret.op = "FromFixedSizeBytes" /\ ret.recv = 1
    /\ Val(1) = BigFromInt(7)
    /\ Val(2) = MaxUint128

C10_Step ==
    /\ ret'.op \in ArithOps =>
           /\ heap'[inst'[ret'.recv]] = Val(ret'.recv)
           /\ heap'[inst'[ret'.arg]] = Val(ret'.arg)
           /\ ret'.err = ErrNil =>
                  /\ ret'.res = Len(inst) + 1 /\ Len(inst') = ret'.res
                  /\ \A w \in Instances : inst'[ret'.res] # inst[w]
    /\ \A r \in Instances :
           (origin[r] = Kind("Add") /\ DecodeInto(r)) =>
               \A w \in Instances \ {r} : heap'[inst'[w]] = Val(w)

\* C10: Add, Sub, Mul, Div and Exp leave the values of the receiver and of the
\* operand unchanged, whether they succeed or fail and also when both are the
\* same instance; a successful result is a new instance with its own big.Int,
\* and a later decode into it changes no other instance.
C10_ArithmeticNonMutating == [][C10_Step]_vars

\* C10 witness: instance 3 is the result of arithmetic on the instances 1 and
\* 2, of values 2 and 2^128 - 1, and 5 has since been decoded into it
C10_Witness ==
    /\ Len(inst) = 3
    /\ origin[3] = Kind("Add")
    /\ ret.op = "FromFixedSizeBytes" /\ ret.recv = 3
    /\ Val(3) = BigFromInt(5)
    /\ Val(1) = BigFromInt(2) /\ Val(2) = MaxUint128

====
